---------------------------- MODULE Spec2Model ----------------------------
(* Model of poliastro.plotting._base: BaseOrbitPlotter combined with      *)
(* Mixin2D (a 2D plotter such as StaticOrbitPlotter).                      *)
(*                                                                         *)
(* Lengths (astropy Quantities) are integers in metres: a Quantity is a   *)
(* physical length whatever unit it is expressed in, so `.to(u.km)` does  *)
(* not change the modelled value.  Frame vectors are dimensionless        *)
(* integers in units of 1/10000.                                           *)
(* Every public method is one action: the whole call, including every     *)
(* backend hook it invokes.  A backend hook may raise: the input k of an  *)
(* action is the index of the hook call that raises (0: none does).       *)
EXTENDS Integers, Sequences, FiniteSets, TLC

VARIABLES trajectories, attractor, attractor_radius, frame, last

vars == <<trajectories, attractor, attractor_radius, frame, last>>

-----------------------------------------------------------------------------
(* Bounds *)

\* cap on the number of stored trajectories
MaxTraj == 2
\* num_points: samples per orbit (150 by default in the source)
NumPoints == 2

-----------------------------------------------------------------------------
(* Values *)

None == "None"
NoPosition == <<>>
NoFrame == <<>>
\* np.inf * u.km
Inf == 2147483647

Abs(x) == IF x < 0 THEN -x ELSE x
Max2(a, b) == IF a >= b THEN a ELSE b
Min2(a, b) == IF a <= b THEN a ELSE b

RECURSIVE Gcd(_, _)
Gcd(a, b) == IF b = 0 THEN a ELSE Gcd(b, a % b)

ISqrt(s) == CHOOSE r \in 0..s : r * r <= s /\ (r + 1) * (r + 1) > s

\* Euclidean norm of an integer 3-vector (exact for the vectors of the model)
Norm(v) ==
    LET g == Gcd(Gcd(Abs(v[1]), Abs(v[2])), Abs(v[3]))
    IN IF g = 0 THEN 0
       ELSE g * ISqrt((v[1] \div g) * (v[1] \div g) + (v[2] \div g) * (v[2] \div g)
                      + (v[3] \div g) * (v[3] \div g))

Dot(a, b) == a[1] * b[1] + a[2] * b[2] + a[3] * b[3]

\* x * 0.15 and x * 0.5 (exact on the lengths of the model: multiples of 20)
Mul015(x) == 3 * (x \div 20)
Mul05(x) == x \div 2

RECURSIVE SeqMin(_)
SeqMin(s) == IF Len(s) = 1 THEN s[1] ELSE Min2(s[1], SeqMin(Tail(s)))

-----------------------------------------------------------------------------
(* External collaborators: bodies, orbits, ephemerides *)

Attractors == {"Earth", "Mars"}
SolarSystemBodies == {"Moon"}

\* body.R
R(body) ==
    CASE body = "Earth" -> 6371000
      [] body = "Mars" -> 3389500
      [] OTHER -> 0

\* body.parent
Parent(body) == IF body = "Moon" THEN "Earth" ELSE "Sun"

\* n samples of a closed path through the points pts
Sample(pts, n) == [i \in 1..n |-> pts[((i - 1) % Len(pts)) + 1]]

FarPts == << <<50000000, 0, 0>>, <<30000000, 40000000, 0>>, <<0, 0, 60000000>> >>
MidPts == << <<0, 0, 100000000>>, <<60000000, 0, 80000000>>, <<0, 90000000, 0>> >>
LowPts == << <<7000000, 0, 0>>, <<0, 8000000, 0>>, <<0, 0, 7500000>> >>
ImpactPts == << <<0, 6000000, 0>>, <<8000000, 0, 0>>, <<0, 0, 9000000>> >>
MarsPts == << <<0, 20000000, 0>>, <<12000000, 16000000, 0>>, <<0, 0, 30000000>> >>

StdFrame == << <<10000, 0, 0>>, <<0, 10000, 0>>, <<0, 0, 10000>> >>
TiltFrame == << <<6000, 8000, 0>>, <<-8000, 6000, 0>>, <<0, 0, 10000>> >>

\* orbit.attractor, orbit.sample(n), orbit.r, orbit.pqw()
Orbits ==
    { [attractor |-> "Earth", pts |-> FarPts, r |-> FarPts[1], pqw |-> StdFrame],
      [attractor |-> "Earth", pts |-> ImpactPts, r |-> ImpactPts[1], pqw |-> StdFrame],
      [attractor |-> "Mars", pts |-> MarsPts, r |-> MarsPts[1], pqw |-> StdFrame] }

\* Ephem.from_body(body, epochs, attractor=body.parent, plane).sample()
EphemPts(body) ==
    << <<384400000, 0, 0>>, <<0, 384400000, 0>>, <<-384400000, 0, 0>> >>

\* Orbit.from_body_ephem(body, epoch).change_plane(plane).pqw()
BodyPqw(body) == TiltFrame

\* coordinates handed to plot_trajectory
CoordinateInputs == { Sample(MidPts, NumPoints), Sample(LowPts, NumPoints) }

\* (p, q, w) handed to set_frame
FrameInputs ==
    { << <<10000, 1, 0>>, <<-1, 10000, 0>>, <<0, 0, 10000>> >>,
      << <<10000, 0, 0>>, <<0, 10000, 0>>, <<0, 0, 9000>> >>,
      << <<10000, 0, 0>>, <<0, 10000, 0>>, <<0, 6000, 8000>> >>,
      << <<10000, 1, 0>>, <<0, 10000, 0>>, <<0, 0, 10000>> >> }


-----------------------------------------------------------------------------
(* Backend hooks.  A call is recorded as the hook's name, the index of    *)
(* the trajectory it renders (0: none) and the radius it is given (0:     *)
(* none).                                                                  *)

Hook(name, idx, radius) == [hook |-> name, idx |-> idx, radius |-> radius]

\* the calls made when the k-th call raises (k = 0: no call raises)
Exec(calls, k) == IF k = 0 \/ k > Len(calls) THEN calls ELSE SubSeq(calls, 1, k)

\* _get_colors(color, trail): the colour set the backend returns
get_colors(color, trail) == <<color, trail>>

\* BODY_COLORS.get(body.name)
BodyColor(body) == IF body = "Moon" THEN "#999999" ELSE None

Trajectory(coordinates, position, label, colors, dashed) ==
    [coordinates |-> coordinates, position |-> position, label |-> label,
     colors |-> colors, dashed |-> dashed]

-----------------------------------------------------------------------------
(* BaseOrbitPlotter *)

\* slip: the attractor is rebound whatever was bound before
set_attractor_rebinds(att, new) == [ok |-> TRUE, attractor |-> new]

\* _set_attractor: the attractor afterwards, and whether the call raised
set_attractor(att, new) ==
    IF att = None THEN [ok |-> TRUE, attractor |-> new]
    ELSE IF new # att THEN [ok |-> FALSE, attractor |-> att]
    ELSE [ok |-> TRUE, attractor |-> att]

\* min([coordinates.norm().min() for ... in self._trajectories] or [0 * u.m])
min_distance(trajs) ==
    IF trajs = <<>> THEN 0
    ELSE SeqMin([i \in 1..Len(trajs) |->
                   SeqMin([j \in 1..Len(trajs[i].coordinates) |->
                             Norm(trajs[i].coordinates[j])])])

\* slip: only the newest trajectory is looked at
redraw_attractor_newest_only(trajs, att) ==
    Max2(R(att), Mul015(min_distance(<<trajs[Len(trajs)]>>)))

\* slip: the attractor's physical radius is no lower limit
redraw_attractor_no_floor(trajs, att) == Mul015(min_distance(trajs))

\* _redraw_attractor: the new self._attractor_radius
redraw_attractor(trajs, att) == Max2(R(att), Mul015(min_distance(trajs)))

\* slip: max for min
plot_position_max(radius, position, att) ==
    Max2(Mul05(radius), Mul05(Norm(position) - R(att)))

\* _plot_position: the radius handed to _draw_point
plot_position(radius, position, att) ==
    Min2(Mul05(radius), Mul05(Norm(position) - R(att)))

\* __plot_coordinates_and_position: the hook calls for the i-th trajectory
plot_coordinates_and_position(t, i, radius, att) ==
    <<Hook("plot_coordinates", i, 0)>>
    \o (IF t.position # NoPosition
        THEN <<Hook("draw_point", i, plot_position(radius, t.position, att))>>
        ELSE <<>>)

\* slip: only the newest trajectory is drawn again
redraw_newest_only(trajs, radius, att) ==
    plot_coordinates_and_position(trajs[Len(trajs)], Len(trajs), radius, att)

\* _redraw: the hook calls for the trajectories from the i-th on
RECURSIVE redraw_from(_, _, _, _)
redraw_from(trajs, i, radius, att) ==
    IF i > Len(trajs) THEN <<>>
    ELSE plot_coordinates_and_position(trajs[i], i, radius, att)
         \o redraw_from(trajs, i + 1, radius, att)

redraw(trajs, radius, att) == redraw_from(trajs, 1, radius, att)

\* slip: the trajectory is put first
append_trajectory_first(trajs, t) == <<t>> \o trajs

\* self._trajectories.append(trajectory)
append_trajectory(trajs, t) == Append(trajs, t)

Unchanged(error) ==
    [trajectories |-> trajectories, attractor |-> attractor,
     attractor_radius |-> attractor_radius, frame |-> frame,
     ok |-> FALSE, error |-> error, hooks |-> <<>>, ncalls |-> 0]

\* slip: every stored trajectory is rendered again, not only the new one
add_trajectory_redraws_all(att, t, before, k) ==
    LET trajs2 == append_trajectory(trajectories, t)
        radius2 == redraw_attractor(trajs2, att)
        calls == before
                 \o <<Hook("clear_attractor", 0, 0), Hook("draw_sphere", 0, radius2)>>
                 \o redraw(trajs2, radius2, att)
    IN [trajectories |-> trajs2, attractor |-> att, attractor_radius |-> radius2,
        frame |-> frame, ok |-> (k = 0),
        error |-> IF k = 0 THEN "" ELSE "HookError",
        hooks |-> Exec(calls, k), ncalls |-> Len(calls)]

\* __add_trajectory, after the hook calls `before` of the caller; att is the
\* attractor the caller has bound
add_trajectory(att, t, before, k) ==
    LET trajs2 == append_trajectory(trajectories, t)
        radius2 == redraw_attractor(trajs2, att)
        calls == before
                 \o <<Hook("clear_attractor", 0, 0), Hook("draw_sphere", 0, radius2)>>
                 \o plot_coordinates_and_position(t, Len(trajs2), radius2, att)
    IN [trajectories |-> trajs2, attractor |-> att, attractor_radius |-> radius2,
        frame |-> frame, ok |-> (k = 0),
        error |-> IF k = 0 THEN "" ELSE "HookError",
        hooks |-> Exec(calls, k), ncalls |-> Len(calls)]

\* a call that raises in _get_colors, its first hook call
get_colors_raises ==
    [Unchanged("HookError") EXCEPT !.hooks = <<Hook("get_colors", 0, 0)>>, !.ncalls = 1]

\* slip: the attractor is checked after the colours are asked for
plot_trajectory_checks_late(t, k) ==
    IF k = 1 THEN get_colors_raises
    ELSE IF attractor = None
    THEN [Unchanged("ValueError") EXCEPT !.hooks = <<Hook("get_colors", 0, 0)>>, !.ncalls = 1]
    ELSE add_trajectory(attractor, t, <<Hook("get_colors", 0, 0)>>, k)

\* _plot_trajectory
plot_trajectory(t, k) ==
    IF attractor = None THEN Unchanged("ValueError")
    ELSE IF k = 1 THEN get_colors_raises
    ELSE add_trajectory(attractor, t, <<Hook("get_colors", 0, 0)>>, k)

\* _plot and _plot_body_orbit: _get_colors, set_attractor(new), __add_trajectory
plot_with_attractor(new, t, k) ==
    LET sa == set_attractor(attractor, new)
    IN IF k = 1 THEN get_colors_raises
       ELSE IF ~sa.ok
       THEN [Unchanged("NotImplementedError") EXCEPT
                !.hooks = <<Hook("get_colors", 0, 0)>>, !.ncalls = 1]
       ELSE add_trajectory(sa.attractor, t, <<Hook("get_colors", 0, 0)>>, k)

-----------------------------------------------------------------------------
(* Mixin2D *)

\* np.allclose(norm(v), 1): |norm - 1| <= 1e-8 + 1e-5, on the squared norm
IsUnit(v) == Dot(v, v) >= 99997999 /\ Dot(v, v) <= 100002002

\* np.allclose(a.dot(b), 0): |a.b| <= 1e-8
IsOrthogonal(a, b) == Abs(Dot(a, b)) <= 1

\* slip: the frame is stored before it is validated
set_frame_stores_first(p_vec, q_vec, w_vec, k) ==
    IF ~(IsUnit(p_vec) /\ IsUnit(q_vec) /\ IsUnit(w_vec))
    THEN [Unchanged("ValueError: unit") EXCEPT !.frame = <<p_vec, q_vec, w_vec>>]
    ELSE IF ~(IsOrthogonal(p_vec, q_vec) /\ IsOrthogonal(q_vec, w_vec)
              /\ IsOrthogonal(w_vec, p_vec))
    THEN [Unchanged("ValueError: orthogonal") EXCEPT !.frame = <<p_vec, q_vec, w_vec>>]
    ELSE LET calls == IF trajectories # <<>>
                      THEN redraw(trajectories, attractor_radius, attractor)
                      ELSE <<>>
         IN [trajectories |-> trajectories, attractor |-> attractor,
             attractor_radius |-> attractor_radius, frame |-> <<p_vec, q_vec, w_vec>>,
             ok |-> (k = 0), error |-> IF k = 0 THEN "" ELSE "HookError",
             hooks |-> Exec(calls, k), ncalls |-> Len(calls)]

\* _set_frame
set_frame(p_vec, q_vec, w_vec, k) ==
    IF ~(IsUnit(p_vec) /\ IsUnit(q_vec) /\ IsUnit(w_vec))
    THEN Unchanged("ValueError: unit")
    ELSE IF ~(IsOrthogonal(p_vec, q_vec) /\ IsOrthogonal(q_vec, w_vec)
              /\ IsOrthogonal(w_vec, p_vec))
    THEN Unchanged("ValueError: orthogonal")
    ELSE LET calls == IF trajectories # <<>>
                      THEN redraw(trajectories, attractor_radius, attractor)
                      ELSE <<>>
         IN [trajectories |-> trajectories, attractor |-> attractor,
             attractor_radius |-> attractor_radius, frame |-> <<p_vec, q_vec, w_vec>>,
             ok |-> (k = 0), error |-> IF k = 0 THEN "" ELSE "HookError",
             hooks |-> Exec(calls, k), ncalls |-> Len(calls)]

-----------------------------------------------------------------------------
(* The plotter as a state machine *)

PlotOps == {"plot", "plot_trajectory", "plot_body_orbit"}
FrameOps == {"set_frame", "set_orbit_frame", "set_body_frame"}

\* __init__
Init ==
    /\ trajectories = <<>>
    /\ attractor = None
    /\ attractor_radius = Inf
    /\ frame = NoFrame
    /\ last = [op |-> "init", body |-> None, arg |-> <<>>, ok |-> TRUE, error |-> "",
               hooks |-> <<>>]

\* the call of op returned or raised with the outcome res; body is the body
\* the call binds as attractor (None: it binds none), arg the Trajectory it
\* builds, or the (p, q, w) it is given
Apply(op, body, arg, res) ==
    /\ trajectories' = res.trajectories
    /\ attractor' = res.attractor
    /\ attractor_radius' = res.attractor_radius
    /\ frame' = res.frame
    /\ last' = [op |-> op, body |-> body, arg |-> arg, ok |-> res.ok,
                error |-> res.error, hooks |-> res.hooks]

\* a plot* call may raise at any of the hook calls it makes
MaxHookCalls == 5

SetAttractor ==
    \E body \in Attractors :
        LET sa == set_attractor(attractor, body)
        IN Apply("set_attractor", body, <<>>,
                 [Unchanged(IF sa.ok THEN "" ELSE "NotImplementedError") EXCEPT
                     !.attractor = sa.attractor, !.ok = sa.ok])

PlotTrajectory ==
    /\ Len(trajectories) < MaxTraj
    /\ \E coordinates \in CoordinateInputs, k \in 0..MaxHookCalls :
        LET t == Trajectory(coordinates, NoPosition, "None", get_colors(None, FALSE), FALSE)
            res == plot_trajectory(t, k)
        IN k <= res.ncalls /\ Apply("plot_trajectory", None, t, res)

Plot ==
    /\ Len(trajectories) < MaxTraj
    /\ \E orbit \in Orbits, k \in 0..MaxHookCalls :
        LET t == Trajectory(Sample(orbit.pts, NumPoints), orbit.r, "epoch",
                            get_colors(None, FALSE), TRUE)
            res == plot_with_attractor(orbit.attractor, t, k)
        IN k <= res.ncalls /\ Apply("plot", orbit.attractor, t, res)

PlotBodyOrbit ==
    /\ Len(trajectories) < MaxTraj
    /\ \E body \in SolarSystemBodies, k \in 0..MaxHookCalls :
        LET coordinates == Sample(EphemPts(body), NumPoints)
            t == Trajectory(coordinates, coordinates[1], body,
                            get_colors(BodyColor(body), FALSE), FALSE)
            res == plot_with_attractor(Parent(body), t, k)
        IN k <= res.ncalls /\ Apply("plot_body_orbit", Parent(body), t, res)

FrameCall(op, pqw) ==
    \E k \in 0..(2 * MaxTraj) :
        LET res == set_frame(pqw[1], pqw[2], pqw[3], k)
        IN k <= res.ncalls /\ Apply(op, None, pqw, res)

SetFrame == \E pqw \in FrameInputs : FrameCall("set_frame", pqw)

SetOrbitFrame == \E orbit \in Orbits : FrameCall("set_orbit_frame", orbit.pqw)

SetBodyFrame == \E body \in SolarSystemBodies : FrameCall("set_body_frame", BodyPqw(body))

Next ==
    \/ SetAttractor
    \/ PlotTrajectory
    \/ Plot
    \/ PlotBodyOrbit
    \/ SetFrame
    \/ SetOrbitFrame
    \/ SetBodyFrame

Spec == Init /\ [][Next]_vars

-----------------------------------------------------------------------------
(* Properties.  In an action formula the unprimed variables are the state *)
(* before a call, the primed ones the state after it, and last' is the    *)
(* call.                                                                   *)

\* the distances from the origin of all samples of the trajectories trajs
Distances(trajs) ==
    { Norm(trajs[i].coordinates[j]) :
        i \in 1..Len(trajs), j \in 1..NumPoints }

Least(S) == CHOOSE m \in S : \A x \in S : m <= x

Inserted == Len(trajectories') > Len(trajectories)

IsDrawPoint(h) == h.hook = "draw_point"
IsPlotCoordinates(h) == h.hook = "plot_coordinates"

\* C1, as stated: each insertion leaves the attractor radius at least as
\* large as it was before (from the value set at construction on), and the
\* radius is never below the attractor's physical radius R.
C1_RadiusNonDecreasing ==
    [][ /\ Inserted => attractor_radius' >= attractor_radius
        /\ attractor' # None => attractor_radius' >= R(attractor') ]_vars

\* C1, amended: each insertion leaves the attractor radius at most as large
\* as it was before (from the infinite value set at construction on), and
\* the radius is never below the physical radius R of the bound attractor.
C1_RadiusNonIncreasing ==
    [][ /\ Inserted => attractor_radius' <= attractor_radius
        /\ attractor' # None => attractor_radius' >= R(attractor') ]_vars

\* a second insertion has brought the radius down from a finite value above R to R
C1_Witness ==
    /\ Len(trajectories) = 2
    /\ attractor_radius = R(attractor)
    /\ 3 * Least(Distances(<<trajectories[1]>>)) > 20 * R(attractor)

\* C2: a plot, plot_trajectory or plot_body_orbit call that fails leaves the
\* trajectory list as it was before the call.
C2_FailedPlotLeavesTrajectories ==
    [][ (last'.op \in PlotOps /\ ~last'.ok) => trajectories' = trajectories ]_vars

\* C3: every successful plot* call appends the Trajectory it creates at the
\* end of the list, so that after n successful calls the list holds their n
\* trajectories in call order; and no call of any operation removes,
\* reorders or replaces a stored Trajectory: the list before a call is a
\* prefix of the list after it, longer by at most one, and calls other than
\* plot* leave it unchanged.
C3_TrajectoriesInCallOrder ==
    [][ /\ (last'.op \in PlotOps /\ last'.ok)
            => trajectories' = trajectories \o <<last'.arg>>
        /\ Len(trajectories') \in {Len(trajectories), Len(trajectories) + 1}
        /\ \A i \in 1..Len(trajectories) : trajectories'[i] = trajectories[i]
        /\ last'.op \notin PlotOps => trajectories' = trajectories ]_vars

\* two different trajectories are stored by two successful calls, the newest last
C3_Witness ==
    /\ Len(trajectories) = 2
    /\ trajectories[1] # trajectories[2]
    /\ last.op \in PlotOps /\ last.ok
    /\ trajectories[2] = last.arg
    /\ Least(Distances(<<trajectories[1]>>)) > Least(Distances(<<trajectories[2]>>))

\* C4: a bound attractor never changes; a call that would bind another body
\* fails and leaves attractor and trajectories unchanged; set_attractor with
\* the bound body raises nothing and changes nothing.
C4_AttractorBoundOnce ==
    [][ attractor # None =>
          /\ attractor' = attractor
          /\ last'.body \notin {None, attractor}
                => (~last'.ok /\ trajectories' = trajectories)
          /\ (last'.op = "set_attractor" /\ last'.body = attractor)
                => (last'.ok /\ last'.hooks = <<>> /\ trajectories' = trajectories
                    /\ attractor_radius' = attractor_radius /\ frame' = frame) ]_vars

\* plot of an orbit around Mars was refused on a plotter bound to Earth
C4_Witness ==
    /\ attractor = "Earth"
    /\ trajectories # <<>>
    /\ last.op = "plot" /\ last.body = "Mars"
    /\ ~last.ok /\ last.error = "NotImplementedError"

\* C5: plot_trajectory on a plotter without attractor fails with ValueError,
\* calls no backend hook and leaves trajectories empty and the attractor unset.
C5_PlotTrajectoryNeedsAttractor ==
    [][ (attractor = None /\ last'.op = "plot_trajectory") =>
          /\ ~last'.ok /\ last'.error = "ValueError"
          /\ last'.hooks = <<>>
          /\ trajectories' = <<>>
          /\ attractor' = None ]_vars

C5_Witness ==
    /\ last.op = "plot_trajectory" /\ ~last.ok /\ last.error = "ValueError"
    /\ attractor = None /\ trajectories = <<>>

\* the three vectors have unit length and are pairwise orthogonal, exactly
Orthonormal(pqw) ==
    /\ \A i \in 1..3 : Dot(pqw[i], pqw[i]) = 10000 * 10000
    /\ Dot(pqw[1], pqw[2]) = 0 /\ Dot(pqw[2], pqw[3]) = 0 /\ Dot(pqw[3], pqw[1]) = 0

\* the same, up to the tolerance of the comparison (1e-5 on the lengths,
\* 1e-8 on the products)
NearlyOrthonormal(pqw) ==
    /\ \A i \in 1..3 : Dot(pqw[i], pqw[i]) \in 99997999..100002002
    /\ \A i, j \in 1..3 : i # j => Dot(pqw[i], pqw[j]) \in -1..1

\* C6: a frame-setting call stores (p, q, w) only when the vectors are of
\* unit length and pairwise orthogonal (up to the tolerance of the floating
\* comparison), and stores an exactly orthonormal triple; otherwise it fails
\* with ValueError, the stored frame is unchanged and nothing is redrawn.
C6_FrameValidated ==
    [][ last'.op \in FrameOps =>
          /\ Orthonormal(last'.arg) => frame' = last'.arg
          /\ frame' # frame => (NearlyOrthonormal(last'.arg) /\ frame' = last'.arg)
          /\ ~NearlyOrthonormal(last'.arg) =>
                /\ ~last'.ok
                /\ last'.error \in {"ValueError: unit", "ValueError: orthogonal"}
                /\ frame' = frame
                /\ last'.hooks = <<>> ]_vars

\* a non-orthogonal triple was refused on a plotter with a frame and trajectories
C6_Witness ==
    /\ last.op = "set_frame" /\ ~last.ok /\ last.error = "ValueError: orthogonal"
    /\ frame # NoFrame /\ frame # last.arg
    /\ trajectories # <<>>

\* C7: once a trajectory is stored, the attractor radius is max(R, 0.15 * m),
\* m the least distance from the origin over all stored trajectories.
C7_RadiusFormula ==
    trajectories # <<>> =>
        LET m == Least(Distances(trajectories))
        IN /\ attractor_radius >= R(attractor)
           /\ 20 * attractor_radius >= 3 * m
           /\ attractor_radius = R(attractor) \/ 20 * attractor_radius = 3 * m

\* R = 6371 km, m = 50000 km from the first of two trajectories: 7500 km
C7_Witness ==
    /\ Len(trajectories) = 2
    /\ attractor = "Earth"
    /\ Least(Distances(<<trajectories[1]>>)) = 50000000
    /\ Least(Distances(<<trajectories[2]>>)) > 50000000
    /\ attractor_radius = 7500000

\* C8: a successful plot* call has appended its one Trajectory and has
\* called, after _get_colors, in this order and once each: _clear_attractor,
\* _draw_sphere with the new attractor radius, _plot_coordinates for the new
\* trajectory, and _draw_point for the new trajectory iff it has a position
\* (never for plot_trajectory); no stored trajectory is rendered again.
C8_PlotCallSequence ==
    [][ (last'.op \in PlotOps /\ last'.ok) =>
          LET n == Len(trajectories) + 1
              h == last'.hooks
          IN /\ trajectories' = trajectories \o <<last'.arg>>
             /\ Len(h) = IF last'.arg.position # NoPosition THEN 5 ELSE 4
             /\ h[1].hook = "get_colors"
             /\ h[2].hook = "clear_attractor"
             /\ h[3].hook = "draw_sphere" /\ h[3].radius = attractor_radius'
             /\ h[4].hook = "plot_coordinates" /\ h[4].idx = n
             /\ Len(h) = 5 => (h[5].hook = "draw_point" /\ h[5].idx = n)
             /\ last'.op = "plot_trajectory" => Len(h) = 4 ]_vars

\* a second orbit was plotted with its position marker
C8_Witness ==
    /\ last.op = "plot" /\ last.ok
    /\ Len(trajectories) = 2
    /\ Len(last.hooks) = 5

\* C9: a successful frame-setting call redraws iff a trajectory is stored;
\* the redraw calls _plot_coordinates once per stored trajectory in
\* insertion order, each followed by _draw_point iff the trajectory has a
\* position, and changes neither trajectories, attractor nor radius.
C9_FrameRedraws ==
    [][ (last'.op \in FrameOps /\ last'.ok) =>
          LET h == last'.hooks
              pc == SelectSeq(h, IsPlotCoordinates)
          IN /\ (h # <<>>) <=> (trajectories # <<>>)
             /\ Len(pc) = Len(trajectories)
             /\ \A i \in 1..Len(pc) : pc[i].idx = i
             /\ \A j \in 1..Len(h) :
                   \/ /\ IsPlotCoordinates(h[j])
                      /\ (trajectories[h[j].idx].position # NoPosition)
                            <=> (j < Len(h) /\ IsDrawPoint(h[j + 1]))
                   \/ /\ IsDrawPoint(h[j])
                      /\ j > 1 /\ IsPlotCoordinates(h[j - 1])
                      /\ h[j - 1].idx = h[j].idx
             /\ trajectories' = trajectories
             /\ attractor' = attractor
             /\ attractor_radius' = attractor_radius ]_vars

\* a frame was set on a plotter holding a trajectory without position and,
\* after it, one with a position
C9_Witness ==
    /\ last.op \in FrameOps /\ last.ok
    /\ Len(trajectories) = 2
    /\ trajectories[1].position = NoPosition
    /\ trajectories[2].position # NoPosition
    /\ Len(last.hooks) = 3

\* C10, as stated: the radius handed to _draw_point is half of
\* min(attractor radius * 0.5, (|position| - R) * 0.5), and is positive.
C10_MarkerRadiusHalvedAndClamped ==
    \A j \in 1..Len(last.hooks) :
        IsDrawPoint(last.hooks[j]) =>
            LET position == trajectories[last.hooks[j].idx].position
            IN /\ 4 * last.hooks[j].radius
                    = Min2(attractor_radius, Norm(position) - R(attractor))
               /\ last.hooks[j].radius > 0

\* C10, amended: the radius handed to _draw_point is
\* min(attractor radius * 0.5, (|position| - R) * 0.5), neither halved again
\* nor clamped: it is positive iff the position is strictly outside R.
C10_MarkerRadius ==
    \A j \in 1..Len(last.hooks) :
        IsDrawPoint(last.hooks[j]) =>
            LET position == trajectories[last.hooks[j].idx].position
            IN /\ 2 * last.hooks[j].radius
                    = Min2(attractor_radius, Norm(position) - R(attractor))
               /\ (last.hooks[j].radius > 0) <=> (Norm(position) > R(attractor))

\* a marker was drawn with a negative radius for a position inside the attractor
C10_Witness ==
    \E j \in 1..Len(last.hooks) :
        /\ IsDrawPoint(last.hooks[j])
        /\ last.hooks[j].radius < 0
        /\ Norm(trajectories[last.hooks[j].idx].position) < R(attractor)

=============================================================================
